---- MODULE Spec2Model ----
(***************************************************************************)
(* DBMesh data-panel: the MySQL command handlers (handler/mysql/mod.rs,    *)
(* handler/mysql/text.rs), the SQL front end (parser/) and the per-        *)
(* connection task of main.rs, as state machines.                          *)
(*                                                                         *)
(*   SpecQuery    ComQueryHandler::handle applied to one COM_QUERY packet   *)
(*                and one backend execution.                               *)
(*   SpecDispatch CommandRootHandler::handle, AuthHandler::handle and       *)
(*                HandshakeHandler::handle applied to successive packets.   *)
(*   Spec         the accept loop of main.rs and its connection tasks.      *)
(***************************************************************************)
EXTENDS Integers, Sequences, FiniteSets, TLC

(***************************************************************************)
(* Bounds of the model.                                                    *)
(***************************************************************************)
\* result sets one backend execution returns, at most
MaxSets == 2
\* columns of one result set, at most
MaxCols == 2
\* rows of one result set, at most
MaxRows == 2
\* sequence ids a client packet header carries: 0..MaxSeq
MaxSeq == 1
\* statement ids one session allocates, at most
MaxStmts == 2
\* result sets of a backend execution under SpecDispatch, at most
MaxDispatchSets == 1
\* results listener.accept() yields, at most
MaxConns == 2
\* results stream.next() yields over all connections, at most
MaxReads == 3
\* bytes of the largest physical packet payload: 0xFFFFFF on the wire, scaled
MaxChunk == 2
\* bytes of a logical payload handed to the frame writer, at most
MaxPayload == 5

VARIABLES
    \* ---- one handler call (SpecQuery, SpecDispatch) ----
    command_packet_header,  \* header of the packet handed to the handler
    command_packet,         \* its payload
    backend,                \* what the backend does during this call
    result,                 \* what the handler returned
    handler,                \* the handler that ran
    session_ctx,            \* the SessionContext handed to it
    \* ---- the server of main.rs (Spec), per connection ----
    pc,                     \* where the connection task is
    authorized,             \* main.rs 146
    out,                    \* the frame built and not yet handed to sink.send
    command,                \* command-type byte of the packet being answered
    sink,                   \* the kinds of the frames handed to sink.send, in order
    send_ok,                \* whether the last sink.send succeeded
    reads,                  \* how many results stream.next() has yielded
    quit_handled,           \* a Quit packet has been answered
    db_map,                 \* Database.map, shared by the connection tasks
    \* ---- one statement through the SQL front end (SpecContext, SpecRewrite) ----
    sql_text,               \* the SQL text
    sql_stmt,               \* the statement parsed from it: <<>> or <<statement>>
    sql_stmt_ctx,           \* the SQLStatementContext
    referenced,             \* the table and alias of the add_table calls made
    analysed,               \* analyse has run on sql_stmt
    route_ctx,              \* the routing decision: table name to physical name
    rewrite_sql,            \* the rewritten text: <<>> or <<text>>
    \* ---- the frame codec (SpecCodec) ----
    frame_payload,          \* the logical payload handed to the frame writer
    frame_sequence_id,      \* the sequence id it starts from
    frame_packets,          \* the physical packets written: header and payload
    frame_wire,             \* their bytes on the socket
    frame_read              \* what the frame reader returned: <<>> or <<result>>

cvars == <<pc, authorized, out, command, sink, send_ok, reads, quit_handled, db_map>>

hvars == <<command_packet_header, command_packet, backend, result, handler, session_ctx>>

avars == <<sql_text, sql_stmt, sql_stmt_ctx, referenced, analysed, route_ctx, rewrite_sql>>

fvars == <<frame_payload, frame_sequence_id, frame_packets, frame_wire, frame_read>>

(***************************************************************************)
(* Packets, as the values handed to their constructors.                    *)
(***************************************************************************)
MySQLFieldCountPacket_new(sequence_id, column_count) ==
    [kind |-> "FieldCount", sequence_id |-> sequence_id, column_count |-> column_count]

MySQLColumnDefinition41Packet_new(sequence_id, c) ==
    [kind |-> "ColumnDefinition", sequence_id |-> sequence_id, name |-> c.name]

MySQLEOFPacket_new(sequence_id) ==
    [kind |-> "Eof", sequence_id |-> sequence_id]

MySQLTextResultSetRowPacket_new(sequence_id, datas) ==
    [kind |-> "TextRow", sequence_id |-> sequence_id, datas |-> datas]

MySQLOKPacket_new(sequence_id, affected_rows, last_insert_id) ==
    [kind |-> "Ok", sequence_id |-> sequence_id,
     affected_rows |-> affected_rows, last_insert_id |-> last_insert_id]

MySQLHandshakePacket_new(thread_id) ==
    [kind |-> "Handshake", thread_id |-> thread_id]

(***************************************************************************)
(* What a handler call ends in: Some(payloads), None, or a panic (an       *)
(* unwrap() of an Err or of a None).                                       *)
(***************************************************************************)
Some(payloads) == [tag |-> "Some", payloads |-> payloads]
None == [tag |-> "None", payloads |-> <<>>]
Panic == [tag |-> "Panic", payloads |-> <<>>]
NotCalled == [tag |-> "NotCalled", payloads |-> <<>>]

(***************************************************************************)
(* The backend (the mysql crate's Conn) as the handler sees it: whether    *)
(* Conn::new and query_iter succeed, and the result sets next_set() yields.*)
(* A result set is Err ("set"), or has columns and rows, the row iterator  *)
(* ending normally ("none") or in an Err after the rows listed ("row").    *)
(* Nothing the backend would yield after a failure is ever observed, so    *)
(* only the last set of an execution fails.                                *)
(***************************************************************************)
\* Option<u64>: None is <<>>, Some(n) is <<n>>
NoId == <<>>
SomeId(n) == <<n>>

\* Value::Bytes, Value::NULL and one of the other variants of mysql::Value
Value(i, j) ==
    CASE (i + j) % 3 = 2 -> [type |-> "Bytes", data |-> <<j, i>>]
      [] (i + j) % 3 = 0 -> [type |-> "NULL"]
      [] OTHER           -> [type |-> "Int", v |-> j]

Columns(k) == [i \in 1..k |-> [name |-> i]]

Rows(k, m) == [j \in 1..m |-> [i \in 1..k |-> Value(i, j)]]

\* a result set with columns: it carries no status of its own
RowSet(k, m, fail) ==
    [fail |-> fail, columns |-> Columns(k), rows |-> Rows(k, m),
     affected_rows |-> 0, last_insert_id |-> NoId]

\* a pure-status result set: no columns, no rows
StatusSet(affected_rows, last_insert_id) ==
    [fail |-> "none", columns |-> <<>>, rows |-> <<>>,
     affected_rows |-> affected_rows, last_insert_id |-> last_insert_id]

ErrSet ==
    [fail |-> "set", columns |-> <<>>, rows |-> <<>>,
     affected_rows |-> 0, last_insert_id |-> NoId]

OkSets ==
    { RowSet(k, m, "none") : k \in 1..MaxCols, m \in 0..MaxRows }
        \cup { StatusSet(a, l) : a \in {0, 1}, l \in {NoId, SomeId(7)} }

FailedSets ==
    { RowSet(k, m, "row") : k \in 1..MaxCols, m \in 0..(MaxRows - 1) } \cup {ErrSet}

SeqsUpTo(S, n) == UNION { [1..l -> S] : l \in 0..n }

SetSeqs(n) ==
    SeqsUpTo(OkSets, n)
        \cup { Append(p, f) : p \in SeqsUpTo(OkSets, n - 1), f \in FailedSets }

Backends(n) ==
    { [conn |-> "ok", query |-> "ok", sets |-> ss] : ss \in SetSeqs(n) }
        \cup { [conn |-> "fail", query |-> "ok", sets |-> <<>>],
               [conn |-> "ok", query |-> "fail", sets |-> <<>>] }

NoBackend == [conn |-> "ok", query |-> "ok", sets |-> <<>>]

(***************************************************************************)
(* SQL text is a sequence of characters.                                   *)
(***************************************************************************)
Lower == <<"a","b","c","d","e","f","g","h","i","j","k","l","m",
           "n","o","p","q","r","s","t","u","v","w","x","y","z">>
Upper == <<"A","B","C","D","E","F","G","H","I","J","K","L","M",
           "N","O","P","Q","R","S","T","U","V","W","X","Y","Z">>

\* char::to_uppercase on the ASCII letters
to_uppercase_char(ch) ==
    IF \E n \in 1..26 : Lower[n] = ch
    THEN Upper[CHOOSE n \in 1..26 : Lower[n] = ch]
    ELSE ch

\* str::to_uppercase
to_uppercase(sql) == [n \in 1..Len(sql) |-> to_uppercase_char(sql[n])]

\* str::starts_with
starts_with(sql, prefix) ==
    /\ Len(prefix) <= Len(sql)
    /\ SubSeq(sql, 1, Len(prefix)) = prefix

SET == <<"S","E","T">>

SqlSetNames == <<"S","E","T"," ","N","A","M","E","S"," ","x">>
SqlSetLower == <<"s","e","t"," ","a","=","1">>
SqlSelect == <<"S","E","L","E","C","T"," ","1">>
SqlSelectTwo == <<"S","E","L","E","C","T"," ","1",";","S","E","L","E","C","T"," ","2">>
SqlInsert == <<"I","N","S","E","R","T"," ","t">>
SqlEmpty == <<>>
SqlGarbage == <<"?","?">>
SqlSetNamesLower == <<"s","e","t"," ","n","a","m","e","s"," ","x">>
SqlUse == <<"U","S","E"," ","t">>
SqlSavepoint == <<"s","a","v","e","p","o","i","n","t"," ","a">>

SqlTexts == {SqlSetNames, SqlSetLower, SqlSelect, SqlSelectTwo, SqlInsert,
             SqlEmpty, SqlGarbage, SqlSetNamesLower, SqlUse, SqlSavepoint}

\* parser/sql/mysql.rs 31-59: the prefixes of the statements built without
\* the parsing engine
SetVariablePrefixes ==
    { <<"S","E","T"," ","N","A","M","E","S">>,
      <<"S","E","T"," ","S","E","S","S","I","O","N">>,
      <<"U","S","E"," ">>,
      <<"S","A","V","E","P","O","I","N","T"," ">>,
      <<"R","O","L","L","B","A","C","K"," ","T","O"," ">> }

(***************************************************************************)
(* The statements of the SQL front end (parser/sql/).  The tree the        *)
(* parsing engine builds for a text is tabled as the text's parts: its     *)
(* keywords, its table names (each with its alias) and the text between.   *)
(***************************************************************************)
Keyword(text) == [kind |-> "keyword", text |-> text, alias |-> <<>>]
Table(name, alias) == [kind |-> "table", text |-> name, alias |-> alias]
Text(text) == [kind |-> "text", text |-> text, alias |-> <<>>]

t_order == <<"t","_","o","r","d","e","r">>
t_user == <<"t","_","u","s","e","r">>
t_item == <<"t","_","i","t","e","m">>

TableNames == {t_order, t_user, t_item}

\* mod.rs 127-130: the statement of test_route
PartsTestRoute ==
    << Keyword(<<"S","E","L","E","C","T">>),
       Text(<<" ","a",","," ","b",","," ","1","2","3",","," ","m","y","f","u","n","c","(","b",")"," ">>),
       Keyword(<<"F","R","O","M">>),
       Text(<<" ">>),
       Table(t_order, <<>>),
       Text(<<" ">>),
       Keyword(<<"W","H","E","R","E">>),
       Text(<<" ","u","s","e","r","_","i","d"," ","="," ","1"," ">>),
       Keyword(<<"a","n","d">>),
       Text(<<" ","a"," ",">"," ","b"," ">>),
       Keyword(<<"A","N","D">>),
       Text(<<" ","b"," ","<"," ","1","0","0"," ">>),
       Keyword(<<"O","R","D","E","R"," ","B","Y">>),
       Text(<<" ","a"," ">>),
       Keyword(<<"D","E","S","C">>),
       Text(<<","," ","b">>) >>

PartsUpdate ==
    << Keyword(<<"u","p","d","a","t","e">>),
       Text(<<" ">>),
       Table(t_order, <<"o">>),
       Text(<<" ","o"," ">>),
       Keyword(<<"s","e","t">>),
       Text(<<" ","a"," ","="," ","1"," ">>),
       Keyword(<<"w","h","e","r","e">>),
       Text(<<" ","o",".","u","s","e","r","_","i","d"," ","="," ","1">>) >>

PartsDelete ==
    << Keyword(<<"D","E","L","E","T","E"," ","F","R","O","M">>),
       Text(<<" ">>),
       Table(t_user, <<>>),
       Text(<<" ">>),
       Keyword(<<"W","H","E","R","E">>),
       Text(<<" ","u","s","e","r","_","i","d"," ","="," ","2">>) >>

PartsJoin ==
    << Keyword(<<"s","e","l","e","c","t">>),
       Text(<<" ","o",".","a"," ">>),
       Keyword(<<"f","r","o","m">>),
       Text(<<" ">>),
       Table(t_order, <<"o">>),
       Text(<<" ","o",","," ">>),
       Table(t_user, <<"u">>),
       Text(<<" ","u"," ">>),
       Keyword(<<"w","h","e","r","e">>),
       Text(<<" ","o",".","i","d"," ","="," ","u",".","i","d">>) >>

PartsInsertItem ==
    << Keyword(<<"i","n","s","e","r","t"," ","i","n","t","o">>),
       Text(<<" ">>),
       Table(t_item, <<>>),
       Text(<<" ">>),
       Keyword(<<"v","a","l","u","e","s">>),
       Text(<<" ","(","1",")">>) >>

AllParts == {PartsTestRoute, PartsUpdate, PartsDelete, PartsJoin, PartsInsertItem}

RECURSIVE Concat(_)
Concat(parts) ==
    IF parts = <<>> THEN <<>> ELSE Head(parts).text \o Concat(Tail(parts))

SqlTestRoute == Concat(PartsTestRoute)
SqlUpdate == Concat(PartsUpdate)
SqlDelete == Concat(PartsDelete)
SqlJoin == Concat(PartsJoin)
SqlInsertItem == Concat(PartsInsertItem)

RewriteTexts == {SqlTestRoute, SqlUpdate, SqlDelete, SqlJoin, SqlInsertItem}

\* the parts of a text of RewriteTexts
PartsOf(text) == CHOOSE parts \in AllParts : Concat(parts) = text

(***************************************************************************)
(* parser::mysql::parser: Parser::parse_sql(..).unwrap().  The parsing     *)
(* engine is external; its answer on each text of SqlTexts is tabled here, *)
(* a statement being its variant of sqlparser::ast::Statement.             *)
(***************************************************************************)
ParseOk(statements) == [ok |-> TRUE, statements |-> statements]
ParseErr == [ok |-> FALSE, statements |-> <<>>]

Parser_parse_sql(sql) ==
    CASE sql = SqlSelect    -> ParseOk(<<"Query">>)
      [] sql = SqlSelectTwo -> ParseOk(<<"Query", "Query">>)
      [] sql = SqlInsert    -> ParseOk(<<"Insert">>)
      [] sql = SqlSetLower  -> ParseOk(<<"SetVariable">>)
      [] sql = SqlEmpty     -> ParseOk(<<>>)
      [] sql \in {SqlTestRoute, SqlJoin} -> ParseOk(<<"Query">>)
      [] sql = SqlUpdate    -> ParseOk(<<"Update">>)
      [] sql = SqlDelete    -> ParseOk(<<"Delete">>)
      [] sql = SqlInsertItem -> ParseOk(<<"Insert">>)
      [] OTHER              -> ParseErr

\* the Vec<Statement> returned; not ok when unwrap() meets the Err and panics
parser_mysql_parser(sql) == Parser_parse_sql(sql)

\* parser/sql/mysql.rs 28-71: the SET/USE/SAVEPOINT family is answered with a
\* SetVariable statement, every other text goes to the parsing engine
parser_sql_mysql_parser(sql) ==
    IF \E prefix \in SetVariablePrefixes : starts_with(to_uppercase(sql), prefix)
    THEN ParseOk(<<"SetVariable">>)
    ELSE Parser_parse_sql(sql)

(***************************************************************************)
(* ComQueryHandler::handle (handler/mysql/text.rs).                        *)
(***************************************************************************)
\* text.rs 104-108: one cell of a row as (is_not_null, bytes)
RowData(v) ==
    CASE v.type = "Bytes" -> <<TRUE, v.data>>
      [] v.type = "NULL"  -> <<FALSE, <<>>>>
      [] OTHER            -> <<TRUE, <<>>>>

\* QueryResultSets without the Eof that closes a result set
RECURSIVE QueryResultSets_NoClosingEof(_, _, _)
QueryResultSets_NoClosingEof(sets, global_sequence_id, payloads) ==
    IF sets = <<>> THEN Some(payloads)
    ELSE
        LET result_set == Head(sets)
            columns_size == Len(result_set.columns)
            eof_sequence_id == global_sequence_id + columns_size + 1
            last_sequence_id == eof_sequence_id + Len(result_set.rows)
        IN  IF result_set.fail # "none" THEN Panic
            ELSE QueryResultSets_NoClosingEof(Tail(sets), last_sequence_id,
                    payloads
                        \o <<MySQLFieldCountPacket_new(global_sequence_id, columns_size)>>
                        \o [i \in 1..columns_size |->
                              MySQLColumnDefinition41Packet_new(global_sequence_id + i,
                                                                result_set.columns[i])]
                        \o <<MySQLEOFPacket_new(eof_sequence_id)>>
                        \o [j \in 1..Len(result_set.rows) |->
                              MySQLTextResultSetRowPacket_new(eof_sequence_id + j,
                                [i \in 1..columns_size |-> RowData(result_set.rows[j][i])])])

\* text.rs 47-126: the loop over next_set() of the Statement::Query arm,
\* from the value global_sequence_id has when the set is fetched
RECURSIVE QueryResultSets(_, _, _)
QueryResultSets(sets, global_sequence_id, payloads) ==
    IF sets = <<>> THEN Some(payloads)
    ELSE
        LET result_set == Head(sets)
            columns_size == Len(result_set.columns)
            field_count == MySQLFieldCountPacket_new(global_sequence_id, columns_size)
            column_definitions ==
                [i \in 1..columns_size |->
                    MySQLColumnDefinition41Packet_new(global_sequence_id + i,
                                                      result_set.columns[i])]
            eof_sequence_id == global_sequence_id + columns_size + 1
            rows ==
                [j \in 1..Len(result_set.rows) |->
                    MySQLTextResultSetRowPacket_new(eof_sequence_id + j,
                        [i \in 1..columns_size |-> RowData(result_set.rows[j][i])])]
            last_sequence_id == eof_sequence_id + Len(result_set.rows) + 1
        IN  IF result_set.fail # "none" THEN Panic
            ELSE QueryResultSets(Tail(sets), last_sequence_id,
                    payloads \o <<field_count>> \o column_definitions
                        \o <<MySQLEOFPacket_new(eof_sequence_id)>> \o rows
                        \o <<MySQLEOFPacket_new(last_sequence_id)>>)

\* SetVariableResultSets with the last-insert-id left at 0
RECURSIVE SetVariableResultSets_NoLastInsertId(_, _, _)
SetVariableResultSets_NoLastInsertId(sets, global_sequence_id, payloads) ==
    IF sets = <<>> THEN Some(payloads)
    ELSE IF Head(sets).fail = "set" THEN Panic
    ELSE SetVariableResultSets_NoLastInsertId(Tail(sets), global_sequence_id,
            Append(payloads,
                   MySQLOKPacket_new(global_sequence_id, Head(sets).affected_rows, 0)))

\* text.rs 138-152: the loop over next_set() of the Statement::SetVariable arm
RECURSIVE SetVariableResultSets(_, _, _)
SetVariableResultSets(sets, global_sequence_id, payloads) ==
    IF sets = <<>> THEN Some(payloads)
    ELSE
        LET result_set == Head(sets)
            last_insert_id ==
                IF result_set.last_insert_id = NoId THEN 0
                ELSE result_set.last_insert_id[1]
            ok_packet == MySQLOKPacket_new(global_sequence_id,
                                           result_set.affected_rows, last_insert_id)
        IN  IF result_set.fail = "set" THEN Panic
            ELSE SetVariableResultSets(Tail(sets), global_sequence_id,
                                       Append(payloads, ok_packet))

\* text.rs 28-35: the text goes to parser::mysql::parser, and through it to
\* the parsing engine, unless it starts with "SET"
HandedToParser(sql) == ~starts_with(sql, SET)

\* text.rs 28-38: the statement the handler matches on; <<>> when the parser
\* or pop().unwrap() panicked
Statement(sql) ==
    IF ~HandedToParser(sql) THEN <<"SetVariable">>
    ELSE LET statement == parser_mysql_parser(sql)
         IN  IF ~statement.ok \/ statement.statements = <<>> THEN <<>>
             ELSE <<statement.statements[Len(statement.statements)]>>

ComQueryHandler_handle(header, packet, db) ==
    LET sql == packet.sql
        statement == Statement(sql)
    IN  IF db.conn = "fail" THEN Panic
        ELSE IF statement = <<>> THEN Panic
        ELSE IF statement[1] = "Query" THEN
            IF db.query = "fail" THEN Panic
            ELSE QueryResultSets(db.sets, 1, <<>>)
        ELSE IF statement[1] = "SetVariable" THEN
            IF db.query = "fail" THEN Panic
            ELSE SetVariableResultSets(db.sets, 1, <<>>)
        ELSE Some(<<>>)

(***************************************************************************)
(* parser/sql/mod.rs: the statement contexts.  A HashMap is the set of its *)
(* <<key, value>> entries, one per key.                                    *)
(***************************************************************************)
HashMap_insert(map, key, value) ==
    { e \in map : e[1] # key } \cup {<<key, value>>}

\* Option<&V>: <<>> or <<value>>
HashMap_get(map, key) ==
    IF \E e \in map : e[1] = key
    THEN <<(CHOOSE e \in map : e[1] = key)[2]>>
    ELSE <<>>

DMLStatementContext_new == [tables |-> {}, route_columns |-> {}]

\* DMLStatementContext_add_table with the entry added beside the one the
\* table already has
DMLStatementContext_add_table_KeepsOld(common_ctx, table, alias) ==
    [common_ctx EXCEPT !.tables = @ \cup {<<table, alias>>}]

DMLStatementContext_add_table(common_ctx, table, alias) ==
    [common_ctx EXCEPT !.tables = HashMap_insert(@, table, alias)]

SelectStatementContext_new == [variant |-> "Select", common_ctx |-> DMLStatementContext_new]
UpdateStatementContext_new == [variant |-> "Update", common_ctx |-> DMLStatementContext_new]
DeleteStatementContext_new == [variant |-> "Delete", common_ctx |-> DMLStatementContext_new]

\* SQLStatementContext::Default carries no context: its mapping stays empty
SQLStatementContext_Default == [variant |-> "Default", common_ctx |-> DMLStatementContext_new]

\* mod.rs 15-26: only the Select arm records the table
SQLStatementContext_add_table(self, table, alias) ==
    CASE self.variant = "Select" ->
            [self EXCEPT !.common_ctx = DMLStatementContext_add_table(@, table, alias)]
      [] self.variant = "Update" -> self
      [] self.variant = "Delete" -> self
      [] OTHER -> self

(***************************************************************************)
(* The analyser and the rewriter (parser/sql/analyse.rs, rewrite.rs), as   *)
(* test_route of handler/mysql/mod.rs calls them.                          *)
(***************************************************************************)
\* the tree of a text: a keyword is kept as the keyword, not as its letters
Ast(parts) ==
    [n \in 1..Len(parts) |->
        IF parts[n].kind = "keyword"
        THEN [parts[n] EXCEPT !.text = to_uppercase(@)]
        ELSE parts[n]]

\* the context variant that matches the statement
MatchingContext(variant) ==
    CASE variant = "Query"  -> SelectStatementContext_new
      [] variant = "Update" -> UpdateStatementContext_new
      [] variant = "Delete" -> DeleteStatementContext_new
      [] OTHER              -> SQLStatementContext_Default

RECURSIVE AddTables(_, _)
AddTables(stmt_ctx, parts) ==
    IF parts = <<>> THEN stmt_ctx
    ELSE AddTables(
            IF Head(parts).kind = "table"
            THEN SQLStatementContext_add_table(stmt_ctx, Head(parts).text, Head(parts).alias)
            ELSE stmt_ctx,
            Tail(parts))

\* one walk over the tree: the matching context, add_table for every table
SQLAnalyse_analyse(stmt, stmt_ctx) ==
    AddTables(MatchingContext(stmt.variant), stmt.parts)

\* the text of one part under the routing decision
RewritePart(part, decision) ==
    IF part.kind = "table" /\ HashMap_get(decision, part.text) # <<>>
    THEN HashMap_get(decision, part.text)[1]
    ELSE part.text

\* SQLReWrite_rewrite with a table that has no routing entry left out
RECURSIVE SQLReWrite_rewrite_DropsUnrouted(_, _)
SQLReWrite_rewrite_DropsUnrouted(parts, decision) ==
    IF parts = <<>> THEN <<>>
    ELSE (IF Head(parts).kind = "table" /\ HashMap_get(decision, Head(parts).text) = <<>>
          THEN <<>>
          ELSE RewritePart(Head(parts), decision))
            \o SQLReWrite_rewrite_DropsUnrouted(Tail(parts), decision)

\* the rewritten text: routed table names replaced, all else as it stands
RECURSIVE SQLReWrite_rewrite(_, _)
SQLReWrite_rewrite(parts, decision) ==
    IF parts = <<>> THEN <<>>
    ELSE RewritePart(Head(parts), decision) \o SQLReWrite_rewrite(Tail(parts), decision)

(***************************************************************************)
(* The session context and the prepared-statement handlers               *)
(* (session.rs, handler/mysql/binary.rs).                                  *)
(***************************************************************************)
NewSessionContext ==
    [authorized |-> FALSE, current_database |-> <<>>,
     prepared_statements |-> {}, next_statement_id |-> 1]

MySQLErrPacket_new(sequence_id, error) ==
    [kind |-> "Err", sequence_id |-> sequence_id, error |-> error]

MySQLComStmtPrepareOKPacket_new(sequence_id, statement_id) ==
    [kind |-> "PrepareOk", sequence_id |-> sequence_id, statement_id |-> statement_id]

MySQLBinaryResultSetRowPacket_new(sequence_id, row) ==
    [kind |-> "BinaryRow", sequence_id |-> sequence_id, row |-> row]

\* what a handler that takes the session returns: its packets and the session
Handled(res, ctx) == [result |-> res, session_ctx |-> ctx]

\* ComStmtPrepareHandler_handle handing out the lowest id the registry lacks
ComStmtPrepareHandler_handle_ReusesClosedId(header, packet, ctx) ==
    LET id == CHOOSE n \in 1..ctx.next_statement_id :
                  /\ n \notin ctx.prepared_statements
                  /\ \A k \in 1..(n - 1) : k \in ctx.prepared_statements
    IN  Handled(Some(<<MySQLComStmtPrepareOKPacket_new(header.sequence_id + 1, id)>>),
                [ctx EXCEPT !.prepared_statements = @ \cup {id},
                            !.next_statement_id =
                                IF id + 1 > @ THEN id + 1 ELSE @])

ComStmtPrepareHandler_handle(header, packet, ctx) ==
    LET id == ctx.next_statement_id
    IN  Handled(Some(<<MySQLComStmtPrepareOKPacket_new(header.sequence_id + 1, id)>>),
                [ctx EXCEPT !.prepared_statements = @ \cup {id},
                            !.next_statement_id = id + 1])

\* the re-encoder of spec 4.8 with binary rows
RECURSIVE BinaryResultSets(_, _, _)
BinaryResultSets(sets, sequence_id, payloads) ==
    IF sets = <<>> THEN Some(payloads)
    ELSE
        LET result_set == Head(sets)
            k == Len(result_set.columns)
            m == Len(result_set.rows)
            last_insert_id ==
                IF result_set.last_insert_id = NoId THEN 0
                ELSE result_set.last_insert_id[1]
        IN  IF result_set.fail # "none"
            THEN Some(<<MySQLErrPacket_new(sequence_id, "BackendError")>>)
            ELSE IF k = 0
            THEN BinaryResultSets(Tail(sets), sequence_id + 1,
                    Append(payloads, MySQLOKPacket_new(sequence_id,
                                        result_set.affected_rows, last_insert_id)))
            ELSE BinaryResultSets(Tail(sets), sequence_id + k + m + 3,
                    payloads \o <<MySQLFieldCountPacket_new(sequence_id, k)>>
                        \o [i \in 1..k |->
                              MySQLColumnDefinition41Packet_new(sequence_id + i,
                                                                result_set.columns[i])]
                        \o <<MySQLEOFPacket_new(sequence_id + k + 1)>>
                        \o [j \in 1..m |->
                              MySQLBinaryResultSetRowPacket_new(sequence_id + k + 1 + j,
                                                                result_set.rows[j])]
                        \o <<MySQLEOFPacket_new(sequence_id + k + m + 2)>>)

ComStmtExecuteHandler_handle(header, packet, ctx, db) ==
    IF packet.statement_id \notin ctx.prepared_statements
    THEN Handled(Some(<<MySQLErrPacket_new(header.sequence_id + 1, "SessionError")>>), ctx)
    ELSE IF db.conn = "fail" \/ db.query = "fail"
    THEN Handled(Some(<<MySQLErrPacket_new(header.sequence_id + 1, "BackendError")>>), ctx)
    ELSE Handled(BinaryResultSets(db.sets, header.sequence_id + 1, <<>>), ctx)

\* ComStmtCloseHandler_handle answering an Err packet for an id the registry
\* lacks
ComStmtCloseHandler_handle_ErrWhenAbsent(header, packet, ctx) ==
    IF packet.statement_id \notin ctx.prepared_statements
    THEN Handled(Some(<<MySQLErrPacket_new(header.sequence_id + 1, "SessionError")>>), ctx)
    ELSE Handled(Some(<<>>),
                 [ctx EXCEPT !.prepared_statements = @ \ {packet.statement_id}])

ComStmtCloseHandler_handle(header, packet, ctx) ==
    Handled(Some(<<>>),
            [ctx EXCEPT !.prepared_statements = @ \ {packet.statement_id}])

ComStmtResetHandler_handle(header, packet, ctx) ==
    IF packet.statement_id \notin ctx.prepared_statements
    THEN Handled(Some(<<MySQLErrPacket_new(header.sequence_id + 1, "SessionError")>>), ctx)
    ELSE Handled(Some(<<MySQLOKPacket_new(header.sequence_id + 1, 0, 0)>>), ctx)

(***************************************************************************)
(* handler/mysql/mod.rs.                                                   *)
(***************************************************************************)
HandshakeHandler_handle ==
    Some(<<MySQLHandshakePacket_new(100)>>)

\* mod.rs 65-88: both policy points have empty bodies
AuthHandler_handle(header, payload) ==
    Some(<<MySQLOKPacket_new(header.sequence_id + 1, 0, 0)>>)

ComQuitHandler_handle(header) ==
    Some(<<MySQLOKPacket_new(1, 0, 0)>>)

\* ComPingHandler_handle answering with no packet
ComPingHandler_handle_Silent(header) ==
    Some(<<>>)

ComPingHandler_handle(header) ==
    Some(<<MySQLOKPacket_new(1, 0, 0)>>)

\* MySQLCommandPacketType::value_of
value_of(command_packet_type) ==
    CASE command_packet_type = 1  -> "ComQuit"
      [] command_packet_type = 3  -> "ComQuery"
      [] command_packet_type = 14 -> "ComPing"
      [] command_packet_type = 22 -> "ComStmtPrepare"
      [] command_packet_type = 23 -> "ComStmtExecute"
      [] command_packet_type = 25 -> "ComStmtClose"
      [] command_packet_type = 26 -> "ComStmtReset"
      [] OTHER                    -> "Unsupported"

\* CommandRootHandler_route with the default arm falling into ComPingHandler
CommandRootHandler_route_DefaultPing(command_packet_type) ==
    LET t == value_of(command_packet_type)
    IN  CASE t = "ComQuery"       -> "ComQueryHandler"
          [] t = "ComStmtPrepare" -> "ComStmtPrepareHandler"
          [] t = "ComStmtExecute" -> "ComStmtExecuteHandler"
          [] t = "ComStmtClose"   -> "ComStmtCloseHandler"
          [] t = "ComStmtReset"   -> "ComStmtResetHandler"
          [] t = "ComQuit"        -> "ComQuitHandler"
          [] OTHER                -> "ComPingHandler"

\* mod.rs 24-49: the handler the match selects
CommandRootHandler_route(command_packet_type) ==
    LET t == value_of(command_packet_type)
    IN  CASE t = "ComQuery"       -> "ComQueryHandler"
          [] t = "ComStmtPrepare" -> "ComStmtPrepareHandler"
          [] t = "ComStmtExecute" -> "ComStmtExecuteHandler"
          [] t = "ComStmtClose"   -> "ComStmtCloseHandler"
          [] t = "ComStmtReset"   -> "ComStmtResetHandler"
          [] t = "ComQuit"        -> "ComQuitHandler"
          [] t = "ComPing"        -> "ComPingHandler"
          [] OTHER                -> "none"

\* CommandRootHandler_handle with the ComStmtClose arm calling ComStmtResetHandler
CommandRootHandler_handle_CloseAsReset(header, packet, ctx, db) ==
    LET h == CommandRootHandler_route(header.command_packet_type)
    IN  CASE h = "ComQueryHandler" ->
                Handled(ComQueryHandler_handle(header, packet, db), ctx)
          [] h = "ComStmtPrepareHandler" -> ComStmtPrepareHandler_handle(header, packet, ctx)
          [] h = "ComStmtExecuteHandler" -> ComStmtExecuteHandler_handle(header, packet, ctx, db)
          [] h = "ComStmtCloseHandler" -> ComStmtResetHandler_handle(header, packet, ctx)
          [] h = "ComStmtResetHandler" -> ComStmtResetHandler_handle(header, packet, ctx)
          [] h = "ComQuitHandler" -> Handled(ComQuitHandler_handle(header), ctx)
          [] h = "ComPingHandler" -> Handled(ComPingHandler_handle(header), ctx)
          [] OTHER -> Handled(None, ctx)

CommandRootHandler_handle(header, packet, ctx, db) ==
    LET h == CommandRootHandler_route(header.command_packet_type)
    IN  CASE h = "ComQueryHandler" ->
                Handled(ComQueryHandler_handle(header, packet, db), ctx)
          [] h = "ComStmtPrepareHandler" -> ComStmtPrepareHandler_handle(header, packet, ctx)
          [] h = "ComStmtExecuteHandler" -> ComStmtExecuteHandler_handle(header, packet, ctx, db)
          [] h = "ComStmtCloseHandler" -> ComStmtCloseHandler_handle(header, packet, ctx)
          [] h = "ComStmtResetHandler" -> ComStmtResetHandler_handle(header, packet, ctx)
          [] h = "ComQuitHandler" -> Handled(ComQuitHandler_handle(header), ctx)
          [] h = "ComPingHandler" -> Handled(ComPingHandler_handle(header), ctx)
          [] OTHER -> Handled(None, ctx)

vars == <<hvars, cvars, avars, fvars>>

(***************************************************************************)
(* The inputs of a handler call.                                           *)
(***************************************************************************)
SeqIds == 0..MaxSeq

\* the recognised command-type bytes and some that are not
CommandTypes == {0, 1, 2, 3, 14, 22, 23, 24, 25, 26, 255}

Header(sequence_id, command_packet_type) ==
    [sequence_id |-> sequence_id, command_packet_type |-> command_packet_type]

Packet(sql, statement_id) == [sql |-> sql, statement_id |-> statement_id]

\* the payloads a command of the given type carries
Packets(command_packet_type) ==
    CASE command_packet_type \in {3, 22} -> { Packet(sql, 0) : sql \in SqlTexts }
      [] command_packet_type \in {23, 25, 26} ->
            { Packet(<<>>, id) : id \in 1..(MaxStmts + 1) }
      [] OTHER -> { Packet(<<>>, 0) }

\* MySQLHandshakeResponse41Packet, decoded
HandshakeResponses ==
    [capability_flags : SUBSET {"ClientPluginAuth", "ClientProtocol41"},
     username : {"root", "guest"},
     auth_response : {<<>>, <<1>>},
     database : {<<>>, <<"t">>},
     auth_plugin_name : {"mysql_native_password", "other"}]

Conns == 1..MaxConns

NoFrame == [kind |-> "NoFrame"]
EmptyFrame == [kind |-> "Empty"]

InitHandler ==
    /\ command_packet_header = Header(0, 0)
    /\ command_packet = Packet(<<>>, 0)
    /\ backend = NoBackend
    /\ result = NotCalled
    /\ handler = "none"
    /\ session_ctx = NewSessionContext

InitServer ==
    /\ pc = [c \in Conns |-> "listening"]
    /\ authorized = [c \in Conns |-> FALSE]
    /\ out = [c \in Conns |-> NoFrame]
    /\ command = [c \in Conns |-> 0]
    /\ sink = [c \in Conns |-> <<>>]
    /\ send_ok = [c \in Conns |-> TRUE]
    /\ reads = [c \in Conns |-> 0]
    /\ quit_handled = [c \in Conns |-> FALSE]
    /\ db_map = [key \in {"foo"} |-> "bar"]

InitSql ==
    /\ sql_text = <<>>
    /\ sql_stmt = <<>>
    /\ sql_stmt_ctx = SQLStatementContext_Default
    /\ referenced = {}
    /\ analysed = FALSE
    /\ route_ctx = {}
    /\ rewrite_sql = <<>>

InitFrame ==
    /\ frame_payload = <<>>
    /\ frame_sequence_id = 0
    /\ frame_packets = <<>>
    /\ frame_wire = <<>>
    /\ frame_read = <<>>

Init == InitHandler /\ InitServer /\ InitSql /\ InitFrame

(***************************************************************************)
(* SpecQuery: ComQueryHandler::handle on one COM_QUERY packet.             *)
(***************************************************************************)
QueryCall ==
    /\ result = NotCalled
    /\ \E sequence_id \in SeqIds, sql \in SqlTexts, db \in Backends(MaxSets) :
        /\ command_packet_header' = Header(sequence_id, 3)
        /\ command_packet' = Packet(sql, 0)
        /\ backend' = db
        /\ handler' = "ComQueryHandler"
        /\ result' = ComQueryHandler_handle(Header(sequence_id, 3), Packet(sql, 0), db)
        /\ UNCHANGED <<session_ctx, cvars, avars, fvars>>

QueryNext == QueryCall

SpecQuery == Init /\ [][QueryNext]_vars

(***************************************************************************)
(* SpecDispatch: the handlers of mod.rs on the packets of one session.     *)
(***************************************************************************)
Dispatch ==
    /\ result = NotCalled
    /\ \E sequence_id \in SeqIds, t \in CommandTypes, db \in Backends(MaxDispatchSets) :
      \E packet \in Packets(t) :
        LET header == Header(sequence_id, t)
            handled == CommandRootHandler_handle(header, packet, session_ctx, db)
        IN  /\ value_of(t) = "ComStmtPrepare" => session_ctx.next_statement_id <= MaxStmts
            /\ command_packet_header' = header
            /\ command_packet' = packet
            /\ backend' = db
            /\ handler' = CommandRootHandler_route(t)
            /\ result' = handled.result
            /\ session_ctx' = handled.session_ctx
            /\ UNCHANGED <<cvars, avars, fvars>>

AuthCall ==
    /\ result = NotCalled
    /\ \E sequence_id \in SeqIds, payload \in HandshakeResponses :
        /\ command_packet_header' = Header(sequence_id, 0)
        /\ command_packet' = payload
        /\ backend' = NoBackend
        /\ handler' = "AuthHandler"
        /\ result' = AuthHandler_handle(Header(sequence_id, 0), payload)
        /\ UNCHANGED <<session_ctx, cvars, avars, fvars>>

HandshakeCall ==
    /\ result = NotCalled
    /\ command_packet_header' = Header(0, 0)
    /\ command_packet' = Packet(<<>>, 0)
    /\ backend' = NoBackend
    /\ handler' = "HandshakeHandler"
    /\ result' = HandshakeHandler_handle
    /\ UNCHANGED <<session_ctx, cvars, avars, fvars>>

\* the call is over: its packet and its result are dropped, the session stays
Return ==
    /\ result # NotCalled
    /\ command_packet_header' = Header(0, 0)
    /\ command_packet' = Packet(<<>>, 0)
    /\ backend' = NoBackend
    /\ result' = NotCalled
    /\ handler' = "none"
    /\ UNCHANGED <<session_ctx, cvars, avars, fvars>>

DispatchNext == Dispatch \/ AuthCall \/ HandshakeCall \/ Return

SpecDispatch == Init /\ [][DispatchNext]_vars

(***************************************************************************)
(* SpecContext: add_table on a statement context of each variant.          *)
(***************************************************************************)
Aliases == {<<>>, <<"o">>, <<"u">>}

Contexts ==
    {SelectStatementContext_new, UpdateStatementContext_new, DeleteStatementContext_new,
     SQLStatementContext_Default}

InitContext ==
    /\ InitHandler
    /\ InitServer
    /\ InitFrame
    /\ sql_text = <<>>
    /\ sql_stmt = <<>>
    /\ sql_stmt_ctx \in Contexts
    /\ referenced = {}
    /\ analysed = FALSE
    /\ route_ctx = {}
    /\ rewrite_sql = <<>>

AddTable ==
    \E table \in TableNames, alias \in Aliases :
        /\ sql_stmt_ctx' = SQLStatementContext_add_table(sql_stmt_ctx, table, alias)
        /\ referenced' = HashMap_insert(referenced, table, alias)
        /\ UNCHANGED <<sql_text, sql_stmt, analysed, route_ctx, rewrite_sql, hvars, cvars, fvars>>

ContextNext == AddTable

SpecContext == InitContext /\ [][ContextNext]_vars

(***************************************************************************)
(* SpecRewrite: one statement parsed, analysed and rewritten as in         *)
(* test_route, under a routing decision.                                   *)
(***************************************************************************)
\* the physical name a rule gives a table
Physical(table) == table \o <<"_","1">>

\* a decision maps some of the tables, each to itself or to its physical name
RouteDecisions ==
    UNION { { { <<t, IF g[t] THEN Physical(t) ELSE t>> : t \in S } : g \in [S -> BOOLEAN] } :
            S \in SUBSET TableNames }

InitRewrite ==
    /\ InitHandler
    /\ InitServer
    /\ InitFrame
    /\ sql_text \in RewriteTexts
    /\ sql_stmt = <<>>
    /\ sql_stmt_ctx = SQLStatementContext_Default
    /\ referenced = {}
    /\ analysed = FALSE
    /\ route_ctx \in RouteDecisions
    /\ rewrite_sql = <<>>

\* mod.rs 132-133: parser(sql) and pop().unwrap()
ParseStatement ==
    /\ sql_stmt = <<>>
    /\ LET sql_ast == parser_sql_mysql_parser(sql_text)
       IN  /\ sql_ast.ok
           /\ sql_ast.statements # <<>>
           /\ sql_stmt' = <<[variant |-> sql_ast.statements[Len(sql_ast.statements)],
                            parts |-> Ast(PartsOf(sql_text))]>>
    /\ UNCHANGED <<sql_text, sql_stmt_ctx, referenced, analysed, route_ctx, rewrite_sql,
                   hvars, cvars, fvars>>

\* mod.rs 140-141
Analyse ==
    /\ sql_stmt # <<>>
    /\ ~analysed
    /\ sql_stmt_ctx' = SQLAnalyse_analyse(sql_stmt[1], sql_stmt_ctx)
    /\ referenced' = { <<sql_stmt[1].parts[n].text, sql_stmt[1].parts[n].alias>> :
                         n \in { m \in 1..Len(sql_stmt[1].parts) :
                                    sql_stmt[1].parts[m].kind = "table" } }
    /\ analysed' = TRUE
    /\ UNCHANGED <<sql_text, sql_stmt, route_ctx, rewrite_sql, hvars, cvars, fvars>>

\* mod.rs 143-145
Rewrite ==
    /\ sql_stmt # <<>>
    /\ rewrite_sql = <<>>
    /\ rewrite_sql' = <<SQLReWrite_rewrite(sql_stmt[1].parts, route_ctx)>>
    /\ UNCHANGED <<sql_text, sql_stmt, sql_stmt_ctx, referenced, analysed, route_ctx,
                   hvars, cvars, fvars>>

RewriteNext == ParseStatement \/ Analyse \/ Rewrite

SpecRewrite == InitRewrite /\ [][RewriteNext]_vars

(***************************************************************************)
(* Spec: the server of main.rs.  The accept loop spawns one task per       *)
(* connection; a task runs from one await to the next in one step.         *)
(* Connection c is the c-th result of listener.accept().                   *)
(***************************************************************************)
\* the payloads a client sends once authorized: MySQL commands, and lines of
\* the key/value protocol handle_request still parses ('G' is 71, 'S' is 83)
ServerPayloads ==
    { [sequence_id |-> s, command_packet_type |-> t, parts |-> <<>>] :
            s \in SeqIds, t \in {1, 3, 14} }
        \cup { [sequence_id |-> 0, command_packet_type |-> 83,
                parts |-> <<"SET", "foo", v>>] : v \in {"bar", "baz"} }
        \cup { [sequence_id |-> 0, command_packet_type |-> 71,
                parts |-> <<"GET", "foo">>] }

\* main.rs 267-297
Request_parse(parts) ==
    IF parts # <<>> /\ parts[1] = "GET" /\ Len(parts) = 2
    THEN [kind |-> "Get", key |-> parts[2], value |-> ""]
    ELSE IF parts # <<>> /\ parts[1] = "SET" /\ Len(parts) = 3
    THEN [kind |-> "Set", key |-> parts[2], value |-> parts[3]]
    ELSE [kind |-> "Error", key |-> "", value |-> ""]

\* main.rs 239-265: the map after the request
handle_request(parts, map) ==
    LET request == Request_parse(parts)
    IN  IF request.kind = "Set"
        THEN [key \in DOMAIN map \cup {request.key} |->
                 IF key = request.key THEN request.value ELSE map[key]]
        ELSE map

\* main.rs 186: what the backend does on "SELECT a from test", one result set
\* of one column when it succeeds
ServerBackends ==
    { db \in Backends(1) :
        \A n \in 1..Len(db.sets) : db.sets[n].fail # "set" => Len(db.sets[n].columns) = 1 }

\* main.rs 183-190: the unwrap()s of the authorized branch
BackendPanics(db) ==
    \/ db.conn = "fail"
    \/ db.query = "fail"
    \/ \E n \in 1..Len(db.sets) : db.sets[n].fail = "set"

RECURSIVE Sum(_, _)
Sum(f, n) == IF n = 0 THEN 0 ELSE f[n] + Sum(f, n - 1)

\* the model follows the server for MaxReads results of stream.next()
MayRead == Sum(reads, MaxConns) < MaxReads

\* sink.send(frame).await on connection c: the frame is written or the send
\* fails; each entry of sink keeps how many reads had been made by then
Send(c, frame) ==
    /\ sink' = [sink EXCEPT ![c] = Append(@, [kind |-> frame.kind, after |-> reads[c]])]
    /\ \E ok \in BOOLEAN : send_ok' = [send_ok EXCEPT ![c] = ok]

\* Accept with the task entering its read loop at once
Accept_SkipHandshake(c) ==
    /\ pc[c] = "listening"
    /\ \A d \in Conns : d < c => pc[d] # "listening"
    /\ pc' = [pc EXCEPT ![c] = "read"]
    /\ UNCHANGED <<authorized, out, command, sink, send_ok, reads, quit_handled, db_map,
                   hvars, avars, fvars>>

\* Accept with the accept loop gone once an accept or a task has failed
Accept_StopsAfterFailure(c) ==
    /\ pc[c] = "listening"
    /\ \A d \in Conns : d < c => pc[d] # "listening"
    /\ \A d \in Conns : pc[d] \notin {"accept_failed", "panicked"}
    /\ pc' = [pc EXCEPT ![c] = "handshake"]
    /\ UNCHANGED <<authorized, out, command, sink, send_ok, reads, quit_handled, db_map,
                   hvars, avars, fvars>>

\* main.rs 127-137: accept() yields a socket and the task is spawned
Accept(c) ==
    /\ pc[c] = "listening"
    /\ \A d \in Conns : d < c => pc[d] # "listening"
    /\ pc' = [pc EXCEPT ![c] = "handshake"]
    /\ UNCHANGED <<authorized, out, command, sink, send_ok, reads, quit_handled, db_map,
                   hvars, avars, fvars>>

\* main.rs 234: accept() yields an Err, which is printed
AcceptError(c) ==
    /\ pc[c] = "listening"
    /\ \A d \in Conns : d < c => pc[d] # "listening"
    /\ pc' = [pc EXCEPT ![c] = "accept_failed"]
    /\ UNCHANGED <<authorized, out, command, sink, send_ok, reads, quit_handled, db_map,
                   hvars, avars, fvars>>

\* main.rs 142-157: the handshake is sent; a failed send is only printed
SendHandshake(c) ==
    /\ pc[c] = "handshake"
    /\ Send(c, MySQLHandshakePacket_new(100))
    /\ pc' = [pc EXCEPT ![c] = "read"]
    /\ UNCHANGED <<authorized, out, command, reads, quit_handled, db_map, hvars, avars, fvars>>

\* main.rs 162-173: a packet arrives while authorized is false
RecvHandshakeResponse(c) ==
    /\ pc[c] = "read"
    /\ MayRead
    /\ ~authorized[c]
    /\ \E sequence_id \in SeqIds, payload \in HandshakeResponses :
          out' = [out EXCEPT ![c] = MySQLOKPacket_new(sequence_id + 1, 0, 0)]
    /\ reads' = [reads EXCEPT ![c] = @ + 1]
    /\ pc' = [pc EXCEPT ![c] = "auth_send"]
    /\ UNCHANGED <<authorized, command, sink, send_ok, quit_handled, db_map, hvars, avars, fvars>>

\* SendAuthOk with authorized left as it was
SendAuthOk_KeepUnauthorized(c) ==
    /\ pc[c] = "auth_send"
    /\ Send(c, out[c])
    /\ out' = [out EXCEPT ![c] = NoFrame]
    /\ pc' = [pc EXCEPT ![c] = "read"]
    /\ UNCHANGED <<authorized, command, reads, quit_handled, db_map, hvars, avars, fvars>>

\* SendAuthOk with authorized a flag of the process, not of the task
SendAuthOk_AuthorizesAll(c) ==
    /\ pc[c] = "auth_send"
    /\ Send(c, out[c])
    /\ authorized' = [d \in Conns |-> TRUE]
    /\ out' = [out EXCEPT ![c] = NoFrame]
    /\ pc' = [pc EXCEPT ![c] = "read"]
    /\ UNCHANGED <<command, reads, quit_handled, db_map, hvars, avars, fvars>>

\* main.rs 175-179: the Ok is sent, then authorized is set
SendAuthOk(c) ==
    /\ pc[c] = "auth_send"
    /\ Send(c, out[c])
    /\ authorized' = [authorized EXCEPT ![c] = TRUE]
    /\ out' = [out EXCEPT ![c] = NoFrame]
    /\ pc' = [pc EXCEPT ![c] = "read"]
    /\ UNCHANGED <<command, reads, quit_handled, db_map, hvars, avars, fvars>>

\* RecvCommand with the next packet read while a response is still unsent
RecvCommand_Pipelined(c) ==
    /\ pc[c] \in {"read", "respond"}
    /\ MayRead
    /\ authorized[c]
    /\ \E payload \in ServerPayloads :
          /\ command' = [command EXCEPT ![c] = payload.command_packet_type]
          /\ pc' = [pc EXCEPT ![c] = "respond"]
          /\ out' = [out EXCEPT ![c] = EmptyFrame]
          /\ db_map' = handle_request(payload.parts, db_map)
    /\ reads' = [reads EXCEPT ![c] = @ + 1]
    /\ UNCHANGED <<authorized, sink, send_ok, quit_handled, hvars, avars, fvars>>

\* RecvCommand with the packet taken as a command whatever authorized is
RecvCommand_Unauthenticated(c) ==
    /\ pc[c] = "read"
    /\ MayRead
    /\ \E payload \in ServerPayloads, db \in ServerBackends :
          /\ command' = [command EXCEPT ![c] = payload.command_packet_type]
          /\ IF BackendPanics(db)
             THEN /\ pc' = [pc EXCEPT ![c] = "panicked"]
                  /\ UNCHANGED <<out, db_map>>
             ELSE /\ pc' = [pc EXCEPT ![c] = "respond"]
                  /\ out' = [out EXCEPT ![c] = EmptyFrame]
                  /\ db_map' = handle_request(payload.parts, db_map)
    /\ reads' = [reads EXCEPT ![c] = @ + 1]
    /\ UNCHANGED <<authorized, sink, send_ok, quit_handled, hvars, avars, fvars>>

\* main.rs 162-219: a packet arrives while authorized is true
RecvCommand(c) ==
    /\ pc[c] = "read"
    /\ MayRead
    /\ authorized[c]
    /\ \E payload \in ServerPayloads, db \in ServerBackends :
          /\ command' = [command EXCEPT ![c] = payload.command_packet_type]
          /\ IF BackendPanics(db)
             THEN /\ pc' = [pc EXCEPT ![c] = "panicked"]
                  /\ UNCHANGED <<out, db_map>>
             ELSE /\ pc' = [pc EXCEPT ![c] = "respond"]
                  /\ out' = [out EXCEPT ![c] = EmptyFrame]
                  /\ db_map' = handle_request(payload.parts, db_map)
    /\ reads' = [reads EXCEPT ![c] = @ + 1]
    /\ UNCHANGED <<authorized, sink, send_ok, quit_handled, hvars, avars, fvars>>

\* main.rs 220-222: the frame is sent; a failed send is only printed
SendResponse(c) ==
    /\ pc[c] = "respond"
    /\ Send(c, out[c])
    /\ quit_handled' = [quit_handled EXCEPT ![c] = @ \/ value_of(command[c]) = "ComQuit"]
    /\ out' = [out EXCEPT ![c] = NoFrame]
    /\ command' = [command EXCEPT ![c] = 0]
    /\ pc' = [pc EXCEPT ![c] = "read"]
    /\ UNCHANGED <<authorized, reads, db_map, hvars, avars, fvars>>

\* main.rs 225-227: a decode error is only printed
RecvError(c) ==
    /\ pc[c] = "read"
    /\ MayRead
    /\ reads' = [reads EXCEPT ![c] = @ + 1]
    /\ UNCHANGED <<pc, authorized, out, command, sink, send_ok, quit_handled, db_map,
                   hvars, avars, fvars>>

\* main.rs 162, 231: stream.next() yields None and the task ends
RecvEof(c) ==
    /\ pc[c] = "read"
    /\ pc' = [pc EXCEPT ![c] = "closed"]
    /\ UNCHANGED <<authorized, out, command, sink, send_ok, reads, quit_handled, db_map,
                   hvars, avars, fvars>>

Next ==
    \E c \in Conns :
        \/ Accept(c)
        \/ AcceptError(c)
        \/ SendHandshake(c)
        \/ RecvHandshakeResponse(c)
        \/ SendAuthOk(c)
        \/ RecvCommand(c)
        \/ SendResponse(c)
        \/ RecvError(c)
        \/ RecvEof(c)

Spec == Init /\ [][Next]_vars

(***************************************************************************)
(* The packet codec behind read_frame and write_frame (main.rs 143-144).   *)
(* A physical packet is a 4-byte header, the payload length in 3 bytes     *)
(* little-endian and the sequence id in 1 byte, followed by the payload.   *)
(***************************************************************************)
Bytes == {0, 1}

RECURSIVE SeqsOfLen(_, _)
SeqsOfLen(S, n) ==
    IF n = 0 THEN {<<>>}
    ELSE {Append(q, x) : q \in SeqsOfLen(S, n - 1), x \in S}

FramePayloads == UNION {SeqsOfLen(Bytes, n) : n \in 0..MaxPayload}

\* the 3-byte little-endian length and the 1-byte sequence id
PacketHeader_encode(length, sequence_id) ==
    <<length % 256, (length \div 256) % 256, (length \div 65536) % 256, sequence_id % 256>>

PacketHeader_length(header) == header[1] + 256 * header[2] + 65536 * header[3]

PacketHeader_sequence_id(header) == header[4]

PhysicalPacket(payload, sequence_id) ==
    [header |-> PacketHeader_encode(Len(payload), sequence_id), payload |-> payload]

\* Encode without the closing zero-length chunk
RECURSIVE Encode_NoTerminator(_, _)
Encode_NoTerminator(payload, sequence_id) ==
    IF Len(payload) <= MaxChunk
    THEN <<PhysicalPacket(payload, sequence_id)>>
    ELSE <<PhysicalPacket(SubSeq(payload, 1, MaxChunk), sequence_id)>>
            \o Encode_NoTerminator(SubSeq(payload, MaxChunk + 1, Len(payload)),
                                   sequence_id + 1)

\* Encode: chunks of at most MaxChunk bytes, one header each, the sequence id
\* incremented per chunk; a final chunk of exactly MaxChunk bytes is followed
\* by a zero-length chunk
RECURSIVE Encode(_, _)
Encode(payload, sequence_id) ==
    IF Len(payload) < MaxChunk
    THEN <<PhysicalPacket(payload, sequence_id)>>
    ELSE <<PhysicalPacket(SubSeq(payload, 1, MaxChunk), sequence_id)>>
            \o Encode(SubSeq(payload, MaxChunk + 1, Len(payload)), sequence_id + 1)

\* the bytes of the packets in the order they are written
RECURSIVE WireBytes(_)
WireBytes(packets) ==
    IF packets = <<>> THEN <<>>
    ELSE Head(packets).header \o Head(packets).payload \o WireBytes(Tail(packets))

FrameOk(payload, rest) == [tag |-> "Ok", payload |-> payload, rest |-> rest]

FramingError == [tag |-> "FramingError", payload |-> <<>>, rest |-> <<>>]

\* Decode: 4 header bytes, then length payload bytes; a length of MaxChunk
\* means the payload continues in the next physical packet
RECURSIVE Decode(_, _)
Decode(wire, payload) ==
    IF Len(wire) < 4 THEN FramingError
    ELSE
        LET length == PacketHeader_length(SubSeq(wire, 1, 4))
        IN  IF Len(wire) < 4 + length THEN FramingError
            ELSE
                LET chunk == SubSeq(wire, 5, 4 + length)
                    rest == SubSeq(wire, 5 + length, Len(wire))
                IN  IF length = MaxChunk
                    THEN Decode(rest, payload \o chunk)
                    ELSE FrameOk(payload \o chunk, rest)

\* write_frame is handed one payload: sink.send(bytes)
WriteFrame ==
    /\ frame_wire = <<>>
    /\ \E payload \in FramePayloads, sequence_id \in SeqIds :
          /\ frame_payload' = payload
          /\ frame_sequence_id' = sequence_id
          /\ frame_packets' = Encode(payload, sequence_id)
          /\ frame_wire' = WireBytes(Encode(payload, sequence_id))
    /\ UNCHANGED <<frame_read, hvars, cvars, avars>>

\* read_frame yields the next payload: stream.next()
ReadFrame ==
    /\ frame_wire # <<>>
    /\ frame_read = <<>>
    /\ frame_read' = <<Decode(frame_wire, <<>>)>>
    /\ UNCHANGED <<frame_payload, frame_sequence_id, frame_packets, frame_wire,
                   hvars, cvars, avars>>

\* the next payload is written
NextFrame ==
    /\ frame_read # <<>>
    /\ frame_payload' = <<>>
    /\ frame_sequence_id' = 0
    /\ frame_packets' = <<>>
    /\ frame_wire' = <<>>
    /\ frame_read' = <<>>
    /\ UNCHANGED <<hvars, cvars, avars>>

CodecNext == WriteFrame \/ ReadFrame \/ NextFrame

SpecCodec == Init /\ [][CodecNext]_vars

(***************************************************************************)
(* The claims.                                                             *)
(***************************************************************************)
Payloads == result.payloads

\* the backend executed the statement and every result set came through
ExecOk(db) ==
    /\ db.conn = "ok"
    /\ db.query = "ok"
    /\ \A n \in 1..Len(db.sets) : db.sets[n].fail = "none"

QueryTexts == {SqlSelect, SqlSelectTwo}
SetTexts == {SqlSetNames, SqlSetLower}

RECURSIVE CountKind(_, _)
CountKind(packets, kind) ==
    IF packets = <<>> THEN 0
    ELSE (IF Head(packets).kind = kind THEN 1 ELSE 0) + CountKind(Tail(packets), kind)

\* C1: within one command-response cycle the sequence ids of the packets the
\* Query handler emits are strictly increasing in emission order, for any
\* number of result sets, columns and rows.
C1_SequenceIdsStrictlyIncrease ==
    (handler = "ComQueryHandler" /\ result.tag = "Some") =>
        \A n \in 1..(Len(Payloads) - 1) :
            Payloads[n].sequence_id < Payloads[n + 1].sequence_id

\* C2: for Query, Quit, Ping and the authentication reply, the first response
\* packet carries the sequence id of the client packet plus 1, for every
\* sequence id of the client packet.
C2_FirstSequenceIdFollowsClient ==
    ( /\ handler \in {"ComQueryHandler", "ComQuitHandler", "ComPingHandler", "AuthHandler"}
      /\ result.tag = "Some"
      /\ Payloads # <<>> ) =>
        Payloads[1].sequence_id = command_packet_header.sequence_id + 1

\* packets of the result sets before the n-th, FieldCount, k, Eof, m, Eof each
RECURSIVE Offset(_, _)
Offset(sets, n) ==
    IF n <= 1 THEN 0
    ELSE Offset(sets, n - 1) + Len(sets[n - 1].columns) + Len(sets[n - 1].rows) + 3

\* C3: a Query whose execution produces N result sets emits, for each set in
\* backend order, FieldCount, one ColumnDefinition per column in column
\* order, Eof, one row packet per row in row order, Eof, and nothing else.
C3_ResultSetPacketSequence ==
    ( /\ handler = "ComQueryHandler"
      /\ command_packet.sql \in QueryTexts
      /\ ExecOk(backend) ) =>
        /\ result.tag = "Some"
        /\ Len(Payloads) = Offset(backend.sets, Len(backend.sets) + 1)
        /\ \A n \in 1..Len(backend.sets) :
              LET set == backend.sets[n]
                  k == Len(set.columns)
                  m == Len(set.rows)
                  o == Offset(backend.sets, n)
              IN  /\ Payloads[o + 1].kind = "FieldCount"
                  /\ Payloads[o + 1].column_count = k
                  /\ \A i \in 1..k :
                        /\ Payloads[o + 1 + i].kind = "ColumnDefinition"
                        /\ Payloads[o + 1 + i].name = set.columns[i].name
                  /\ Payloads[o + k + 2].kind = "Eof"
                  /\ \A j \in 1..m :
                        /\ Payloads[o + k + 2 + j].kind = "TextRow"
                        /\ Len(Payloads[o + k + 2 + j].datas) = k
                        /\ \A i \in 1..k :
                              /\ Payloads[o + k + 2 + j].datas[i][1]
                                    = (set.rows[j][i].type # "NULL")
                              /\ set.rows[j][i].type = "Bytes" =>
                                    Payloads[o + k + 2 + j].datas[i][2] = set.rows[j][i].data
                  /\ Payloads[o + k + m + 3].kind = "Eof"

C3_Witness ==
    /\ handler = "ComQueryHandler"
    /\ command_packet.sql = SqlSelect
    /\ ExecOk(backend)
    /\ Len(backend.sets) = 2
    /\ Len(backend.sets[1].columns) = 2 /\ Len(backend.sets[1].rows) = 2
    /\ Len(backend.sets[2].columns) = 1 /\ Len(backend.sets[2].rows) = 1
    /\ result.tag = "Some"
    /\ Len(Payloads) = 12

\* C4: a SET-family statement emits exactly one Ok packet per backend result
\* set, carrying that set's affected-row count and last-insert-id (0 when the
\* backend reports none), and no other packet.
C4_OneOkPerResultSet ==
    ( /\ handler = "ComQueryHandler"
      /\ command_packet.sql \in SetTexts
      /\ ExecOk(backend) ) =>
        /\ result.tag = "Some"
        /\ Len(Payloads) = Len(backend.sets)
        /\ \A n \in 1..Len(backend.sets) :
              /\ Payloads[n].kind = "Ok"
              /\ Payloads[n].affected_rows = backend.sets[n].affected_rows
              /\ Payloads[n].last_insert_id =
                    (IF backend.sets[n].last_insert_id = <<>> THEN 0
                     ELSE backend.sets[n].last_insert_id[1])

C4_Witness ==
    /\ handler = "ComQueryHandler"
    /\ command_packet.sql = SqlSetNames
    /\ backend.conn = "ok" /\ backend.query = "ok"
    /\ backend.sets = <<StatusSet(1, SomeId(7)), StatusSet(0, NoId)>>
    /\ result.tag = "Some"
    /\ Len(Payloads) = 2
    /\ Payloads[1].last_insert_id = 7
    /\ Payloads[2].last_insert_id = 0

\* C5: a result set with zero columns is answered by a single Ok packet
\* instead of FieldCount, Eof, Eof, whichever statement kind produced it:
\* the Ok packets are as many as the status sets, the FieldCount packets as
\* many as the sets with columns.
C5_StatusSetYieldsOk ==
    ( /\ handler = "ComQueryHandler"
      /\ command_packet.sql \in QueryTexts \cup SetTexts
      /\ ExecOk(backend)
      /\ result.tag = "Some" ) =>
        /\ CountKind(Payloads, "Ok")
              = Cardinality({ n \in 1..Len(backend.sets) :
                                Len(backend.sets[n].columns) = 0 })
        /\ CountKind(Payloads, "FieldCount")
              = Cardinality({ n \in 1..Len(backend.sets) :
                                Len(backend.sets[n].columns) > 0 })

\* the handler each recognised command-type byte stands for
HandlerOfByte ==
    { <<1, "ComQuitHandler">>, <<3, "ComQueryHandler">>, <<14, "ComPingHandler">>,
      <<22, "ComStmtPrepareHandler">>, <<23, "ComStmtExecuteHandler">>,
      <<25, "ComStmtCloseHandler">>, <<26, "ComStmtResetHandler">> }

\* C6: the dispatcher routes a command packet to the one handler of its
\* command-type byte; for every other byte no handler runs, the result is
\* None and the session context is left as it was.
C6_DispatchByCommandType ==
    [][ ( /\ result = NotCalled
          /\ result' # NotCalled
          /\ handler' \notin {"AuthHandler", "HandshakeHandler"} ) =>
            LET t == command_packet_header'.command_packet_type
            IN  /\ \A hb \in HandlerOfByte : hb[1] = t => handler' = hb[2]
                /\ (\A hb \in HandlerOfByte : hb[1] # t) =>
                      /\ handler' = "none"
                      /\ result' = None
                      /\ session_ctx' = session_ctx ]_vars

C6_Witness ==
    /\ command_packet_header.command_packet_type = 255
    /\ handler = "none"
    /\ result = None
    /\ session_ctx.prepared_statements # {}

Accepted(c) == pc[c] \notin {"listening", "accept_failed"}

\* C7: on every accepted connection exactly one handshake packet is handed
\* to the socket, before anything is read from the client; the task then
\* waits for the client's packet.
C7_OneHandshakeBeforeAnyRead ==
    \A c \in Conns :
        /\ (Accepted(c) /\ pc[c] # "handshake") =>
              /\ sink[c] # <<>>
              /\ sink[c][1] = [kind |-> "Handshake", after |-> 0]
              /\ CountKind(sink[c], "Handshake") = 1
        /\ (~Accepted(c) \/ pc[c] = "handshake") =>
              /\ reads[c] = 0
              /\ sink[c] = <<>>
        /\ (Len(sink[c]) = 1 /\ reads[c] = 0) => (pc[c] \in {"read", "closed"} /\ ~authorized[c])

C7_Witness ==
    \E c \in Conns :
        /\ pc[c] = "read"
        /\ reads[c] > 0
        /\ CountKind(sink[c], "Handshake") = 1
        /\ Len(sink[c]) > 1

\* C8: the first packet received is taken as the handshake response and,
\* whatever it carries, is answered by exactly one Ok packet, after which
\* authorized is true and the task is back in its read loop; authentication
\* produces no Err packet and does not end the task.
C8_AuthAcceptsAny ==
    /\ [](\A c \in Conns :
            /\ CountKind(sink[c], "Err") = 0
            /\ authorized[c] <=> CountKind(sink[c], "Ok") = 1
            /\ CountKind(sink[c], "Ok") <= 1)
    /\ [][ \A c \in Conns :
            /\ (~authorized[c] /\ reads'[c] # reads[c] /\ pc'[c] # pc[c]) =>
                  /\ pc'[c] = "auth_send"
                  /\ out'[c].kind = "Ok"
            /\ (pc[c] = "auth_send" /\ pc'[c] # "auth_send") =>
                  /\ sink'[c] = Append(sink[c], [kind |-> "Ok", after |-> reads[c]])
                  /\ authorized'[c]
                  /\ pc'[c] = "read" ]_vars

C8_Witness ==
    \E c \in Conns :
        /\ authorized[c]
        /\ pc[c] = "read"
        /\ Len(sink[c]) = 2
        /\ sink[c][2].kind = "Ok"

\* C9: within a connection a packet is read only when every frame built for
\* the packets read before it has been handed to the socket: nothing is
\* pending at a read, and the frames sent follow the order of the reads.
C9_ResponsesBeforeNextRead ==
    /\ [](\A c \in Conns :
            /\ out[c] # NoFrame <=> pc[c] \in {"auth_send", "respond"}
            /\ \A n \in 2..Len(sink[c]) : sink[c][n - 1].after < sink[c][n].after)
    /\ [][ \A c \in Conns :
            reads'[c] # reads[c] => (pc[c] = "read" /\ out[c] = NoFrame) ]_vars

C9_Witness ==
    \E c \in Conns :
        /\ pc[c] = "respond"
        /\ reads[c] = 3
        /\ Len(sink[c]) = 3
        /\ sink[c][3].kind = "Empty"

\* C10: a Quit is answered by one final Ok packet and closes the connection:
\* once a Quit has been answered, nothing more is read on that connection.
C10_NothingReadAfterQuit ==
    [][ \A c \in Conns : quit_handled[c] => reads'[c] = reads[c] ]_vars

\* C11: a failed send (of the handshake or of a response) or a decode error
\* on read ends the connection task: after it nothing more is read on that
\* connection and nothing more is handed to its socket.
C11_IoErrorEndsTask ==
    [][ \A c \in Conns :
          /\ ~send_ok[c] => (reads'[c] = reads[c] /\ sink'[c] = sink[c])
          /\ (reads'[c] # reads[c] /\ out'[c] = NoFrame /\ pc'[c] # "panicked") =>
                pc'[c] = "closed" ]_vars

\* the text is neither answered without parsing nor parsed into a statement
Unparsable(sql) ==
    /\ HandedToParser(sql)
    /\ \/ ~Parser_parse_sql(sql).ok
       \/ Parser_parse_sql(sql).statements = <<>>

\* C12: a Query whose SQL cannot be parsed, or yields no statement at all, is
\* answered by an Err packet and by nothing else; the handler returns.
C12_ParseErrorYieldsErr ==
    ( /\ handler = "ComQueryHandler"
      /\ backend.conn = "ok"
      /\ Unparsable(command_packet.sql) ) =>
        /\ result.tag = "Some"
        /\ Len(Payloads) = 1
        /\ Payloads[1].kind = "Err"

\* the handler met a failure of the backend while answering sql
BackendFailureMet(sql, db) ==
    \/ db.conn = "fail"
    \/ /\ Statement(sql) # <<>>
       /\ Statement(sql)[1] \in {"Query", "SetVariable"}
       /\ \/ db.query = "fail"
          \/ \E n \in 1..Len(db.sets) : db.sets[n].fail = "set"
    \/ /\ Statement(sql) # <<>>
       /\ Statement(sql)[1] = "Query"
       /\ \E n \in 1..Len(db.sets) : db.sets[n].fail = "row"

\* C13: when acquiring the backend connection, executing the SQL or reading
\* a result set or a row fails, the Query handler returns a response that
\* ends in an Err packet; it never ends without a response.
C13_BackendErrorYieldsErr ==
    ( /\ handler = "ComQueryHandler"
      /\ BackendFailureMet(command_packet.sql, backend) ) =>
        /\ result.tag = "Some"
        /\ Payloads # <<>>
        /\ Payloads[Len(Payloads)].kind = "Err"

\* C14: whatever has happened to the earlier accepts and to the other tasks
\* (a failed accept, a panicked or ended task), the accept loop takes the next
\* connection, and an accepted connection is sent its handshake and has its
\* packets read.
C14_ServerSurvivesFailures ==
    \A c \in Conns :
        /\ (pc[c] = "listening" /\ \A d \in Conns : d < c => pc[d] # "listening") =>
              ENABLED Accept(c)
        /\ pc[c] = "handshake" => ENABLED SendHandshake(c)
        /\ (pc[c] = "read" /\ MayRead) =>
              ENABLED (RecvHandshakeResponse(c) \/ RecvCommand(c))

C14_Witness ==
    \E c, d \in Conns :
        /\ d < c
        /\ pc[d] = "panicked"
        /\ pc[c] = "read"
        /\ authorized[c]

\* the text begins, in any letter case, with one of the family's prefixes
InSetFamily(sql) ==
    \E prefix \in SetVariablePrefixes : starts_with(to_uppercase(sql), prefix)

\* C15: a Query whose text begins with SET NAMES, SET SESSION, USE, SAVEPOINT
\* or ROLLBACK TO, in any letter case, is not handed to the parsing engine and
\* is answered by Ok packets only.
C15_SetFamilyIsStatusOnly ==
    ( /\ handler = "ComQueryHandler"
      /\ InSetFamily(command_packet.sql)
      /\ ExecOk(backend) ) =>
        /\ ~HandedToParser(command_packet.sql)
        /\ result.tag = "Some"
        /\ \A n \in 1..Len(Payloads) : Payloads[n].kind = "Ok"

\* C16: a Ping is answered by exactly one Ok packet and leaves the session
\* context (authorized flag, active database, statement registry) as it was.
C16_PingHasNoSideEffect ==
    [][ (result = NotCalled /\ handler' = "ComPingHandler") =>
            /\ result'.tag = "Some"
            /\ Len(result'.payloads) = 1
            /\ result'.payloads[1].kind = "Ok"
            /\ session_ctx' = session_ctx ]_vars

C16_Witness ==
    /\ handler = "ComPingHandler"
    /\ Len(Payloads) = 1
    /\ session_ctx.prepared_statements # {}

\* the state of the task of connection c
TaskState(c) ==
    <<pc[c], authorized[c], out[c], command[c], sink[c], send_ok[c], reads[c],
      quit_handled[c]>>

\* C17: every step changes the authorized flag and the task state of at most
\* one connection: whatever packets one connection's task handles, the flag
\* and the state of every other connection stay as they were, under every
\* interleaving of the tasks.
C17_ConnectionsIndependent ==
    [][ Cardinality({ c \in Conns : TaskState(c)' # TaskState(c) }) <= 1 ]_vars

C17_Witness ==
    \E c, d \in Conns :
        /\ c # d
        /\ authorized[d]
        /\ reads[d] >= 2
        /\ ~authorized[c]
        /\ pc[c] = "read"
        /\ sink[c] # <<>>

\* C18: for a Select, an Update and a Delete context alike, add_table records
\* the table with its alias: the context's mapping holds every table
\* add_table was called with, under the alias of the last call.
C18_AddTableRecords ==
    sql_stmt_ctx.variant \in {"Select", "Update", "Delete"} =>
        sql_stmt_ctx.common_ctx.tables = referenced

\* the decision has no entry for a table of the statement, or maps it to itself
IdentityRouting(stmt, decision) ==
    \A n \in 1..Len(stmt.parts) :
        stmt.parts[n].kind = "table" =>
            HashMap_get(decision, stmt.parts[n].text) \in {<<>>, <<stmt.parts[n].text>>}

C20_ExecuteUnknownStatementFails ==
    /\ [](\A id \in session_ctx.prepared_statements : id < session_ctx.next_statement_id)
    /\ [][ /\ ( /\ result = NotCalled
                /\ handler' = "ComStmtExecuteHandler"
                /\ command_packet'.statement_id \notin session_ctx.prepared_statements ) =>
                  /\ result'.tag = "Some"
                  /\ Len(result'.payloads) = 1
                  /\ result'.payloads[1].kind = "Err"
                  /\ result'.payloads[1].error = "SessionError"
                  /\ session_ctx' = session_ctx
           /\ (result = NotCalled /\ handler' = "ComStmtCloseHandler") =>
                  /\ command_packet'.statement_id \notin session_ctx'.prepared_statements
                  /\ session_ctx'.next_statement_id = session_ctx.next_statement_id ]_vars

C20_Witness ==
    /\ handler = "ComStmtExecuteHandler"
    /\ command_packet.statement_id = 1
    /\ session_ctx.next_statement_id > 1
    /\ 1 \notin session_ctx.prepared_statements
    /\ backend.conn = "fail"
    /\ result.tag = "Some"
    /\ Payloads[1].kind = "Err"

\* C21: the ids StmtPrepare returns in a session are strictly increasing and
\* never reused: a StmtPrepare returns an id greater than every id returned
\* before it in the session, closed ones included, and no StmtClose or
\* StmtReset lets an id be handed out again.
C21_StatementIdsIncrease ==
    /\ [](\A id \in session_ctx.prepared_statements : id < session_ctx.next_statement_id)
    /\ [][ /\ session_ctx'.next_statement_id >= session_ctx.next_statement_id
           /\ (result = NotCalled /\ handler' = "ComStmtPrepareHandler") =>
                 /\ result'.tag = "Some"
                 /\ result'.payloads[1].kind = "PrepareOk"
                 /\ result'.payloads[1].statement_id >= session_ctx.next_statement_id
                 /\ result'.payloads[1].statement_id < session_ctx'.next_statement_id
                 /\ result'.payloads[1].statement_id \notin session_ctx.prepared_statements
                 /\ result'.payloads[1].statement_id \in session_ctx'.prepared_statements ]_vars

C21_Witness ==
    /\ handler = "ComStmtPrepareHandler"
    /\ result.tag = "Some"
    /\ Payloads[1].statement_id = 2
    /\ session_ctx.prepared_statements = {2}

\* C22: StmtClose always succeeds and is idempotent: it takes the id out of
\* the registry if it is there, leaves every other statement and the rest of
\* the session as they were, and answers no Err packet when the id is absent.
C22_CloseIsIdempotent ==
    [][ (result = NotCalled /\ handler' = "ComStmtCloseHandler") =>
            /\ result'.tag = "Some"
            /\ CountKind(result'.payloads, "Err") = 0
            /\ session_ctx' =
                  [session_ctx EXCEPT
                      !.prepared_statements = @ \ {command_packet'.statement_id}]
            /\ (command_packet'.statement_id \notin session_ctx.prepared_statements) =>
                  session_ctx' = session_ctx ]_vars

C22_Witness ==
    /\ handler = "ComStmtCloseHandler"
    /\ command_packet.statement_id = 1
    /\ session_ctx.next_statement_id = 3
    /\ session_ctx.prepared_statements = {2}
    /\ result.tag = "Some"

\* the payloads of the packets, concatenated
RECURSIVE Reassembled(_)
Reassembled(packets) ==
    IF packets = <<>> THEN <<>>
    ELSE Head(packets).payload \o Reassembled(Tail(packets))

C24_NoCommandBeforeAuth ==
    /\ [](\A c \in Conns :
            /\ pc[c] \in {"respond", "panicked"} => authorized[c]
            /\ (command[c] # 0 \/ quit_handled[c]) => authorized[c])
    /\ [][ \A c \in Conns :
            /\ authorized[c] => authorized'[c]
            /\ (~authorized[c] /\ reads'[c] # reads[c]) =>
                  /\ pc'[c] \in {"auth_send", "read"}
                  /\ command'[c] = 0
                  /\ db_map' = db_map ]_vars

C24_Witness ==
    \E c \in Conns :
        /\ ~authorized[c]
        /\ pc[c] = "auth_send"
        /\ reads[c] = 2

\* C25: a connection becomes authorized only when the authentication Ok
\* packet has been written to the client: a failed send of that packet leaves
\* authorized false.
C25_AuthorizedOnlyAfterOkSent ==
    [][ \A c \in Conns : (~authorized[c] /\ authorized'[c]) => send_ok'[c] ]_vars

\* the statement is parsed and is neither a query nor a set-variable statement
OtherStatement(sql) ==
    /\ Statement(sql) # <<>>
    /\ Statement(sql)[1] \notin {"Query", "SetVariable"}

\* C26: a Query whose statement is neither row-producing nor a set-variable
\* statement (INSERT, UPDATE, DELETE, DDL) is not executed on the backend:
\* the handler returns an empty list of packets, neither Ok nor Err.
C26_OtherStatementsNotExecuted ==
    ( /\ handler = "ComQueryHandler"
      /\ OtherStatement(command_packet.sql) ) =>
        result = Some(<<>>)

\* C27: the table-alias mapping of a context has one entry per table name
\* after any add_table calls: adding a table that is present replaces its
\* alias and adds no entry; a Default context's mapping stays empty.
C27_TableKeysUnique ==
    /\ []( /\ \A e1, e2 \in sql_stmt_ctx.common_ctx.tables : e1[1] = e2[1] => e1 = e2
           /\ sql_stmt_ctx.variant = "Default" => sql_stmt_ctx = SQLStatementContext_Default )
    /\ [][ \A t \in TableNames :
            ( /\ HashMap_get(sql_stmt_ctx.common_ctx.tables, t) # <<>>
              /\ HashMap_get(referenced', t) # HashMap_get(referenced, t) ) =>
                /\ HashMap_get(sql_stmt_ctx'.common_ctx.tables, t) = HashMap_get(referenced', t)
                /\ Cardinality(sql_stmt_ctx'.common_ctx.tables)
                      = Cardinality(sql_stmt_ctx.common_ctx.tables) ]_vars

C27_Witness ==
    /\ sql_stmt_ctx.variant = "Select"
    /\ sql_stmt_ctx.common_ctx.tables = {<<t_order, <<"u">>>>, <<t_user, <<>>>>}
    /\ referenced = sql_stmt_ctx.common_ctx.tables

====
